---- MODULE Spec2Model ----
(***************************************************************************)
(* A model of decorator/decorator.py: the helpers `decorated`, `pipe`,     *)
(* `compose`, `optional` and `optional2`, together with the small part of  *)
(* Python they rest on (calls, functools.partial, functools.update_wrapper *)
(* and functools.reduce).                                                  *)
(*                                                                         *)
(* Python objects are records tagged by the field k.  A call returns an    *)
(* outcome [st, val, log]: st is "ok" or "err", val the returned object or *)
(* the raised exception, log the values printed while the call ran.        *)
(***************************************************************************)
EXTENDS Integers, Sequences, FiniteSets, TLC

(* ---------------------------- bounds ----------------------------------- *)
MaxLen == 3      \* longest list of decorators handed to pipe / compose
MaxCalls == 3    \* longest chain of calls obj(...)(...)(...) explored

(* ---------------------------- objects ---------------------------------- *)
Absent == "<absent>"             \* an attribute the object does not have

NoneV == [k |-> "None"]
IntV(n) == [k |-> "int", n |-> n]
StrV(s) == [k |-> "str", s |-> s]

\* decorator.py line 13: a unique object, told apart by identity
undefined == [k |-> "undefined"]

\* the module-level function objects
decorated_fn == [k |-> "func", id |-> "decorated"]
optional_fn == [k |-> "func", id |-> "optional"]
optional2_fn == [k |-> "func", id |-> "optional2"]

\* the lambda built by pipe, closed over `decorators`
pipe_lambda(decorators) == [k |-> "lambda", decorators |-> decorators]

\* a decorated callable of the doctests: prints its name, returns ret
Target(name, doc, ret) == [k |-> "target", name |-> name, doc |-> doc, ret |-> ret]

\* a plain user decorator: w(x) is a new callable that announces itself
\* and delegates to x
Wrapper(id) == [k |-> "wrapper", id |-> id]

\* a user function handed to `decorated`: it reports how it was called
Defn(id) == [k |-> "defn", id |-> id]

\* the decorator factories of the doctests
Factory(id) == [k |-> "factory", id |-> id]

\* the inner function `wrapped` of the doctest factories, closed over
\* bar and baz
wrapped_def(bar, baz) == [k |-> "wrapped_def", bar |-> bar, baz |-> baz]

callable(v) ==
  v.k \in {"func", "lambda", "target", "wrapper", "wrapped", "defn",
           "factory", "wrapped_def", "partial"}

(* ---------------------------- outcomes --------------------------------- *)
Ok(v) == [st |-> "ok", val |-> v, log |-> <<>>]
Raise(who, msg) ==
  [st |-> "err", val |-> [k |-> "exc", type |-> "TypeError", who |-> who, msg |-> msg],
   log |-> <<>>]
Emit(v) == [st |-> "ok", val |-> NoneV, log |-> <<v>>]

\* sequencing of two evaluations: the second runs only if the first
\* returned, and the output of both is kept
After(r1, r2) ==
  IF r1.st = "err" THEN r1 ELSE [r2 EXCEPT !.log = r1.log \o r2.log]

(* ---------------------------- functools -------------------------------- *)
\* __name__ and __doc__ as getattr would find them
Meta(v) ==
  CASE v.k \in {"target", "partial"} -> [name |-> v.name, doc |-> v.doc]
    [] v.k \in {"func", "wrapper", "defn", "factory"} -> [name |-> v.id, doc |-> "None"]
    [] v.k = "lambda" -> [name |-> "<lambda>", doc |-> "None"]
    [] v.k = "wrapped_def" -> [name |-> "wrapped", doc |-> "None"]
    [] OTHER -> [name |-> Absent, doc |-> "typedoc"]

\* functools.partial(func, *args): a fresh partial object has no __name__
partial(func, args) ==
  [k |-> "partial", func |-> func, args |-> args, name |-> Absent, doc |-> "partialdoc"]

\* functools.update_wrapper(wrapper, wrapped): copies the attributes that
\* `wrapped` has and returns `wrapper`
update_wrapper(wrapper, wrapped) ==
  [wrapper EXCEPT !.name = IF Meta(wrapped).name = Absent THEN @ ELSE Meta(wrapped).name,
                  !.doc = Meta(wrapped).doc]

(* ---------------------------- decorated -------------------------------- *)
\* decorated with the target left unbound: partial(f) instead of partial(f, g)
decorated_unbound(f, g) ==
  IF g = NoneV
  THEN Ok(update_wrapper(partial(decorated_fn, <<f>>), f))
  ELSE IF callable(f)
       THEN Ok(update_wrapper(partial(f, <<>>), g))
       ELSE Raise("partial", "the first argument must be callable")

\* decorated copying the attributes of f where it should copy those of g
decorated_meta_of_f(f, g) ==
  IF g = NoneV
  THEN Ok(update_wrapper(partial(decorated_fn, <<f>>), f))
  ELSE IF callable(f)
       THEN Ok(update_wrapper(partial(f, <<g>>), f))
       ELSE Raise("partial", "the first argument must be callable")

\* decorated(f, g=None, /), lines 42-44
decorated(f, g) ==
  IF g = NoneV
  THEN Ok(update_wrapper(partial(decorated_fn, <<f>>), f))
  ELSE IF callable(f)
       THEN Ok(update_wrapper(partial(f, <<g>>), g))
       ELSE Raise("partial", "the first argument must be callable")

\* `optional` and `optional2` as the module exports them: the raw function
\* decorated by @decorated (lines 69 and 125)
optional_obj == decorated(optional_fn, NoneV).val
optional2_obj == decorated(optional2_fn, NoneV).val

(* ---------------------------- keyword arguments ------------------------ *)
\* **kwargs is a sequence of <<name, value>> pairs with distinct names
KwNames(kw) == {kw[i][1] : i \in 1..Len(kw)}
KwGet(kw, n) == kw[CHOOSE i \in 1..Len(kw) : kw[i][1] = n][2]

(* ---------------------------- doctest factories ------------------------ *)
\* the signatures: foo(bar='bar', baz='baz') (line 82),
\* foo(bar, baz='baz') (line 138), foo2(bar='bar', *, baz='baz') (line 179)
Params(id) ==
  CASE id = "foo" ->
         <<[name |-> "bar", kwonly |-> FALSE, req |-> FALSE, dflt |-> StrV("bar")],
           [name |-> "baz", kwonly |-> FALSE, req |-> FALSE, dflt |-> StrV("baz")]>>
    [] id = "foo_req" ->
         <<[name |-> "bar", kwonly |-> FALSE, req |-> TRUE, dflt |-> NoneV],
           [name |-> "baz", kwonly |-> FALSE, req |-> FALSE, dflt |-> StrV("baz")]>>
    [] OTHER ->
         <<[name |-> "bar", kwonly |-> FALSE, req |-> FALSE, dflt |-> StrV("bar")],
           [name |-> "baz", kwonly |-> TRUE, req |-> FALSE, dflt |-> StrV("baz")]>>

\* Python's binding of a call's arguments to the parameters
NPos(ps) == Cardinality({i \in 1..Len(ps) : ~ps[i].kwonly})
Given(ps, args, kw, i) ==
  (i <= Len(args) /\ ~ps[i].kwonly) \/ ps[i].name \in KwNames(kw)
BindError(ps, args, kw) ==
  IF Len(args) > NPos(ps) THEN "too many positional arguments"
  ELSE IF \E n \in KwNames(kw) : \A i \in 1..Len(ps) : ps[i].name # n
  THEN "unexpected keyword argument"
  ELSE IF \E i \in 1..Len(ps) : i <= Len(args) /\ ps[i].name \in KwNames(kw)
  THEN "multiple values for argument"
  ELSE IF \E i \in 1..Len(ps) : ps[i].req /\ ~Given(ps, args, kw, i)
  THEN "missing required positional argument"
  ELSE "none"
Bound(ps, args, kw, i) ==
  IF i <= Len(args) /\ ~ps[i].kwonly THEN args[i]
  ELSE IF ps[i].name \in KwNames(kw) THEN KwGet(kw, ps[i].name)
  ELSE ps[i].dflt

\* the body of the doctest factories: `@decorated def wrapped(...)`,
\* `return wrapped`
factory(id, args, kw) ==
  LET ps == Params(id) IN
  IF BindError(ps, args, kw) # "none"
  THEN Raise(id, BindError(ps, args, kw))
  ELSE decorated(wrapped_def(Bound(ps, args, kw, 1), Bound(ps, args, kw, 2)), NoneV)

(* ---------------------------- calls ------------------------------------ *)
RECURSIVE Call(_, _, _)
RECURSIVE reduce(_, _)
RECURSIVE optional(_, _, _)
RECURSIVE optional2(_, _, _, _)

\* reduce(lambda f, g, /: g(f), decorators, initial), line 55; acc is the
\* outcome of the evaluation so far
reduce(decorators, acc) ==
  IF decorators = <<>> \/ acc.st = "err" THEN acc
  ELSE reduce(Tail(decorators), After(acc, Call(Head(decorators), <<acc.val>>, <<>>)))

\* the lambda of pipe, lines 54-55
pipe_body(decorators, fn, args, kwargs) ==
  reduce(decorators, Call(fn, args, kwargs))

\* optional handing g to the factory instead of to the factory's result
optional_target_as_config(f, g, kwargs) ==
  IF g = undefined
  THEN Call(f, <<>>, kwargs)
  ELSE Call(f, <<g>>, kwargs)

\* optional(f, g=__undefined, /, **kwargs), line 122
optional(f, g, kwargs) ==
  IF g = undefined
  THEN Call(f, <<>>, kwargs)
  ELSE LET r == Call(f, <<>>, kwargs) IN After(r, Call(r.val, <<g>>, <<>>))

\* optional2 without the callable(g) branch
optional2_no_callable_test(f, g, args, kwargs) ==
  IF g = undefined
  THEN Call(f, args, kwargs)
  ELSE Call(f, <<g>> \o args, kwargs)

\* optional2 forgetting to prepend g in its last branch
optional2_drop_leading(f, g, args, kwargs) ==
  IF g = undefined
  THEN Call(f, args, kwargs)
  ELSE IF callable(g)
  THEN LET r == Call(f, args, kwargs) IN After(r, Call(r.val, <<g>>, <<>>))
  ELSE Call(f, args, kwargs)

\* optional2(f, g=__undefined, /, *args, **kwargs), lines 219-224
optional2(f, g, args, kwargs) ==
  IF g = undefined
  THEN Call(f, args, kwargs)
  ELSE IF callable(g)
  THEN LET r == Call(f, args, kwargs) IN After(r, Call(r.val, <<g>>, <<>>))
  ELSE Call(f, <<g>> \o args, kwargs)

\* the wrapped function of the doctests: print(bar); r = fn(...);
\* print(baz); return r
wrapped_body(w, fn, args, kwargs) ==
  After(Emit(w.bar),
        LET r == Call(fn, args, kwargs) IN After(r, After(Emit(w.baz), Ok(r.val))))

\* v(*args, **kwargs)
Call(v, args, kwargs) ==
  CASE v.k = "partial" -> Call(v.func, v.args \o args, kwargs)
    [] v.k = "func" /\ v.id = "decorated" ->
         IF kwargs # <<>> \/ Len(args) = 0 \/ Len(args) > 2
         THEN Raise("decorated", "bad arguments")
         ELSE decorated(args[1], IF Len(args) = 2 THEN args[2] ELSE NoneV)
    [] v.k = "func" /\ v.id = "optional" ->
         IF Len(args) = 0 \/ Len(args) > 2
         THEN Raise("optional", "bad arguments")
         ELSE optional(args[1], IF Len(args) = 2 THEN args[2] ELSE undefined, kwargs)
    [] v.k = "func" /\ v.id = "optional2" ->
         IF Len(args) = 0
         THEN Raise("optional2", "bad arguments")
         ELSE optional2(args[1], IF Len(args) >= 2 THEN args[2] ELSE undefined,
                        IF Len(args) >= 2 THEN SubSeq(args, 3, Len(args)) ELSE <<>>,
                        kwargs)
    [] v.k = "lambda" ->
         IF Len(args) = 0
         THEN Raise("<lambda>", "bad arguments")
         ELSE pipe_body(v.decorators, args[1], Tail(args), kwargs)
    [] v.k = "factory" -> factory(v.id, args, kwargs)
    [] v.k = "wrapped_def" ->
         IF Len(args) = 0
         THEN Raise("wrapped", "bad arguments")
         ELSE wrapped_body(v, args[1], Tail(args), kwargs)
    [] v.k = "target" -> After(Emit(StrV(v.name)), Ok(v.ret))
    [] v.k = "wrapper" ->
         IF Len(args) # 1 \/ kwargs # <<>>
         THEN Raise(v.id, "bad arguments")
         ELSE Ok([k |-> "wrapped", by |-> v.id, of |-> args[1]])
    [] v.k = "wrapped" -> After(Emit(StrV(v.by)), Call(v.of, args, kwargs))
    [] v.k = "defn" ->
         IF Len(args) = 0
         THEN Raise(v.id, "bad arguments")
         ELSE Ok([k |-> "defn_result", id |-> v.id, first |-> args[1],
                  rest |-> Tail(args), kwargs |-> kwargs])
    [] OTHER -> Raise("call", "object is not callable")

(* ---------------------------- pipe, compose ---------------------------- *)
\* pipe(*decorators), lines 54-56
pipe(decorators) == decorated(pipe_lambda(decorators), NoneV)

\* decorators[::-1]
Reversed(s) == [i \in 1..Len(s) |-> s[Len(s) + 1 - i]]

\* compose(*decorators), line 66
compose(decorators) == pipe(Reversed(decorators))

(* ---------------------------- inputs ----------------------------------- *)
\* the decorated callables of the doctests (lines 93-95 and 103-105)
baba1 == Target("baba1", "doc of baba1", IntV(7))
baba2 == Target("baba2", "doc of baba2", NoneV)

\* the values a caller may pass positionally
ArgLists ==
  << <<>>, <<baba1>>, <<baba2>>, <<NoneV>>, <<IntV(5)>>, <<StrV("B2")>>,
     <<StrV("B2"), StrV("Z2")>> >>

\* the keyword arguments a caller may pass
KwLists ==
  << <<>>, << <<"bar", StrV("B2")>> >>, << <<"baz", StrV("Z2")>> >>,
     << <<"bar", StrV("B2")>>, <<"baz", StrV("Z2")>> >> >>

\* what may be handed to pipe / compose: two decorators and an object that
\* is not callable
Decorators == << Wrapper("a"), Wrapper("b"), IntV(5) >>

\* the lists of decorators of length n, as sequences of indices
IndexLists(n) == [1..n -> 1..Len(Decorators)]
DecoratorList(ix) == [i \in 1..Len(ix) |-> Decorators[ix[i]]]

Definitions == << Defn("f"), wrapped_def(StrV("bar"), StrV("baz")) >>
Factories == << Factory("foo"), Factory("foo_req"), Factory("foo2") >>

(* ---------------------------- state ------------------------------------ *)
VARIABLES
  kind,        \* which helper built the object under study
  decorators,  \* the arguments of pipe / compose
  f,           \* the argument of decorated / optional / optional2
  calls,       \* the calls made so far on the object, oldest first
  hist         \* hist[1]: the outcomes of the construction; hist[n+1]: the
               \* outcomes of the n-th call.  Each is a sequence with one
               \* outcome per object built side by side.
vars == <<kind, decorators, f, calls, hist>>

Init ==
  /\ kind = "none"
  /\ decorators = <<>>
  /\ f = NoneV
  /\ calls = <<>>
  /\ hist = <<>>

\* decorated(fn)
Normalize(fn) ==
  /\ kind = "none"
  /\ kind' = "decorated"
  /\ f' = fn
  /\ hist' = << <<Call(decorated_fn, <<fn>>, <<>>)>> >>
  /\ UNCHANGED <<decorators, calls>>

\* pipe(*ws)
Pipe(ws) ==
  /\ kind = "none"
  /\ kind' = "pipe"
  /\ decorators' = ws
  /\ hist' = << <<pipe(ws)>> >>
  /\ UNCHANGED <<f, calls>>

\* compose(*ws)
Compose(ws) ==
  /\ kind = "none"
  /\ kind' = "compose"
  /\ decorators' = ws
  /\ hist' = << <<compose(ws)>> >>
  /\ UNCHANGED <<f, calls>>

\* pipe(a, b, c), pipe(a, pipe(b, c)) and pipe(pipe(a, b), c), side by side
PipeGroupings(a, b, c) ==
  /\ kind = "none"
  /\ kind' = "groupings"
  /\ decorators' = <<a, b, c>>
  /\ hist' = << << pipe(<<a, b, c>>),
                   After(pipe(<<b, c>>), pipe(<<a, pipe(<<b, c>>).val>>)),
                   After(pipe(<<a, b>>), pipe(<<pipe(<<a, b>>).val, c>>)) >> >>
  /\ UNCHANGED <<f, calls>>

\* @optional above the factory fac
AdaptOptional(fac) ==
  /\ kind = "none"
  /\ kind' = "optional"
  /\ f' = fac
  /\ hist' = << <<Call(optional_obj, <<fac>>, <<>>)>> >>
  /\ UNCHANGED <<decorators, calls>>

\* @optional2 above the factory fac
AdaptOptional2(fac) ==
  /\ kind = "none"
  /\ kind' = "optional2"
  /\ f' = fac
  /\ hist' = << <<Call(optional2_obj, <<fac>>, <<>>)>> >>
  /\ UNCHANGED <<decorators, calls>>

\* the latest outcomes
Last == hist[Len(hist)]

\* obj(*args, **kwargs) on what the previous step returned; an object
\* whose evaluation raised stays with its exception
Invoke(args, kwargs) ==
  /\ kind # "none"
  /\ Len(calls) < MaxCalls
  /\ \E i \in 1..Len(Last) : Last[i].st = "ok"
  /\ kwargs # <<>> => kind \in {"optional", "optional2"}
  /\ calls' = Append(calls, [args |-> args, kwargs |-> kwargs])
  /\ hist' = Append(hist, [i \in 1..Len(Last) |->
                             IF Last[i].st = "ok"
                             THEN Call(Last[i].val, args, kwargs)
                             ELSE Last[i]])
  /\ UNCHANGED <<kind, decorators, f>>

Next ==
  \/ \E i \in 1..Len(Definitions) : Normalize(Definitions[i])
  \/ \E n \in 0..MaxLen : \E ix \in IndexLists(n) : Pipe(DecoratorList(ix))
  \/ \E n \in 0..MaxLen : \E ix \in IndexLists(n) : Compose(DecoratorList(ix))
  \/ \E ix \in IndexLists(3) : PipeGroupings(Decorators[ix[1]], Decorators[ix[2]], Decorators[ix[3]])
  \/ \E i \in 1..Len(Factories) : AdaptOptional(Factories[i])
  \/ \E i \in 1..Len(Factories) : AdaptOptional2(Factories[i])
  \/ \E i \in 1..Len(ArgLists) : \E j \in 1..Len(KwLists) : Invoke(ArgLists[i], KwLists[j])

Spec == Init /\ [][Next]_vars

(* ---------------------------- properties ------------------------------- *)
\* the n-th call hands over exactly one argument, a decorated callable
IsTargetCall(n) ==
  /\ Len(calls) >= n
  /\ Len(calls[n].args) = 1
  /\ calls[n].args[1].k = "target"
  /\ calls[n].kwargs = <<>>

\* w(x), for an outcome r that returned w
Apply1(r, x) == After(r, Call(r.val, <<x>>, <<>>))

\* C1: for every list w1..wn (n >= 1) and every target t, pipe(w1..wn)(t)
\* is wn(...(w2(w1(t)))): the decorators receive the target itself, w1
\* first, each one's output being the next one's input.
C1_PipeAppliesToTarget ==
  (kind = "pipe" /\ Len(decorators) >= 1 /\ IsTargetCall(1))
    => hist[2][1] = reduce(decorators, Ok(calls[1].args[1]))

\* C2: pipe is associative: pipe(a, b, c)(t), pipe(a, pipe(b, c))(t) and
\* pipe(pipe(a, b), c)(t) give the same result for every call of the
\* wrapped target.
C2_PipeAssociative ==
  (kind = "groupings" /\ IsTargetCall(1))
    => \A n \in 3..Len(hist) : hist[n][1] = hist[n][2] /\ hist[n][2] = hist[n][3]

\* C3: pipe() and compose() are the identity wrapper: pipe()(t) = t and
\* compose()(t) = t, the target is returned unchanged.
C3_EmptyPipeIsIdentity ==
  (kind \in {"pipe", "compose"} /\ decorators = <<>> /\ IsTargetCall(1))
    => hist[2][1] = Ok(calls[1].args[1])

\* C10: pipe and compose do not validate their arguments: with a decorator
\* that is not callable the construction raises nothing, and the error
\* surfaces exactly when the composed result is applied to a target.
C10_ErrorAtApplication ==
  (kind \in {"pipe", "compose"}
     /\ \E i \in 1..Len(decorators) : ~callable(decorators[i]))
    => /\ hist[1][1].st = "ok"
       /\ IsTargetCall(1) => hist[2][1].st = "err"

\* C4 as stated: decorated(f)(target) is f(decorated(f), target).
C4_DefinitionReceivesNormalizer ==
  (kind = "decorated" /\ IsTargetCall(1))
    => hist[2][1] = Call(f, <<hist[1][1].val, calls[1].args[1]>>, <<>>)

\* C4 as amended: for every target other than None, decorated(f)(target)
\* returns, without calling f, the partial application of f to target;
\* calling that result with arguments xs calls f(target, *xs), so f
\* receives the target, not decorated(f), as its first argument.
C4_DefinitionReceivesTarget ==
  (kind = "decorated" /\ Len(calls) >= 1 /\ Len(calls[1].args) = 1
     /\ calls[1].args[1] # NoneV)
    => /\ hist[2][1].st = "ok"
       /\ hist[2][1].log = <<>>
       /\ hist[2][1].val.k = "partial"
       /\ hist[2][1].val.func = f
       /\ hist[2][1].val.args = calls[1].args
       /\ Len(calls) >= 2 =>
            hist[3][1] = Call(f, calls[1].args \o calls[2].args, calls[2].kwargs)
C4_Witness ==
  /\ kind = "decorated" /\ f = Defn("f") /\ Len(calls) = 2
  /\ calls[1].args = <<baba1>> /\ calls[2].args = <<IntV(5)>>
  /\ hist[3][1].st = "ok" /\ hist[3][1].val.first = baba1

\* C5: optional2 dispatches on the first positional value g: (1) absent:
\* factory(config), applied to nothing; (2) invokable: factory(remaining
\* config)(g), g never being passed to the factory; (3) otherwise:
\* factory(g, remaining positional config, keyword config).
C5_Optional2Dispatch ==
  (kind = "optional2" /\ Len(calls) >= 1)
    => LET args == calls[1].args
           kw == calls[1].kwargs
       IN  /\ args = <<>> => hist[2][1] = factory(f.id, <<>>, kw)
           /\ (args # <<>> /\ callable(args[1])) =>
                hist[2][1] = Apply1(factory(f.id, Tail(args), kw), args[1])
           /\ (args # <<>> /\ ~callable(args[1])) =>
                hist[2][1] = factory(f.id, args, kw)
C5_Witness ==
  /\ kind = "optional2" /\ f = Factory("foo2") /\ Len(calls) = 1
  /\ calls[1].args = <<baba1>>
  /\ hist[2][1].st = "ok" /\ hist[2][1].val.args = <<baba1>>
  /\ hist[2][1].val.func = wrapped_def(StrV("bar"), StrV("baz"))

\* C6: for a factory F adapted by optional, F(t) is factory()(t), F(**kw)
\* without a target is the pending wrapper factory(**kw), and F()(t) is
\* the same as the bare F(t).
C6_OptionalBareEqualsCalled ==
  (kind = "optional" /\ Len(calls) >= 1)
    => LET args == calls[1].args
           kw == calls[1].kwargs
       IN  /\ args = <<>> => hist[2][1] = factory(f.id, <<>>, kw)
           /\ Len(args) = 1 => hist[2][1] = Apply1(factory(f.id, <<>>, kw), args[1])
           /\ (args = <<>> /\ kw = <<>> /\ Len(calls) >= 2 /\ Len(calls[2].args) = 1
                 /\ calls[2].kwargs = <<>>) =>
                hist[3][1] = Call(hist[1][1].val, calls[2].args, <<>>)
C6_Witness ==
  /\ kind = "optional" /\ f = Factory("foo") /\ Len(calls) = 2
  /\ calls[1].args = <<>> /\ calls[1].kwargs = <<>>
  /\ calls[2].args = <<baba1>>
  /\ hist[3][1].st = "ok" /\ hist[3][1].val.args = <<baba1>>

\* the output of one call of a target decorated with bar and baz
Events(bar, t, baz) == [st |-> "ok", val |-> t.ret, log |-> <<bar, StrV(t.name), baz>>]

\* the first call configures the factory: no positional value under
\* optional, no invokable first value under optional2
IsConfigCall ==
  /\ Len(calls) >= 1
  /\ kind = "optional" => calls[1].args = <<>>
  /\ kind = "optional2" => (calls[1].args = <<>> \/ ~callable(calls[1].args[1]))

\* C7: for an adapted factory foo(bar, baz) whose wrapper prints bar, runs
\* the target and prints baz, every call of the decorated target gives
\* <<bar, target body, baz>> in that order and returns the target's value,
\* whether the factory was used bare, with empty parentheses, or with
\* keyword or positional overrides; omitted parameters take their defaults.
C7_EventSequence ==
  (kind \in {"optional", "optional2"})
    => LET ps == Params(f.id) IN
       /\ (IsTargetCall(1) /\ Len(calls) >= 2 /\ hist[2][1].st = "ok") =>
            hist[3][1] = Events(ps[1].dflt, calls[1].args[1], ps[2].dflt)
       /\ (IsConfigCall /\ hist[2][1].st = "ok" /\ IsTargetCall(2) /\ Len(calls) >= 3) =>
            hist[4][1] = Events(Bound(ps, calls[1].args, calls[1].kwargs, 1),
                                calls[2].args[1],
                                Bound(ps, calls[1].args, calls[1].kwargs, 2))
C7_Witness ==
  /\ kind = "optional2" /\ f = Factory("foo2") /\ Len(calls) = 3
  /\ calls[1].args = <<StrV("B2")>> /\ calls[1].kwargs = << <<"baz", StrV("Z2")>> >>
  /\ calls[2].args = <<baba1>>
  /\ hist[4][1].log = <<StrV("B2"), StrV("baba1"), StrV("Z2")>>

\* the TypeError of a factory called without its required argument
MissingArgument(id) == Raise(id, "missing required positional argument")

\* C8: for the optional2-adapted factory foo(bar, baz='baz'), whose first
\* parameter has no default: G() raises the factory's missing-argument
\* error, G(t) with an invokable t raises the same error, unchanged, with
\* t never invoked; G(5) returns a pending wrapper configured with 5.
C8_MissingRequiredArgument ==
  (kind = "optional2" /\ f = Factory("foo_req") /\ Len(calls) >= 1
     /\ calls[1].kwargs = <<>>)
    => LET args == calls[1].args IN
       /\ args = <<>> => hist[2][1] = MissingArgument("foo_req")
       /\ (Len(args) = 1 /\ callable(args[1])) => hist[2][1] = MissingArgument("foo_req")
       /\ (Len(args) = 1 /\ ~callable(args[1])) =>
            /\ hist[2][1].st = "ok"
            /\ hist[2][1].log = <<>>
            /\ hist[2][1].val.k = "partial"
            /\ hist[2][1].val.func = decorated_fn
            /\ hist[2][1].val.args = <<wrapped_def(args[1], StrV("baz"))>>
C8_Witness ==
  /\ kind = "optional2" /\ f = Factory("foo_req") /\ Len(calls) = 1
  /\ calls[1].args = <<baba1>> /\ calls[1].kwargs = <<>>
  /\ hist[2][1].st = "err"

\* the steps at which a target is handed to a pending wrapper
IsWrapStep(n) ==
  /\ IsTargetCall(n)
  /\ \/ n = 1
     \/ n = 2 /\ kind \in {"optional", "optional2"} /\ IsConfigCall

====
